---- MODULE Spec2Model ----
(***************************************************************************)
(* Booking-and-payment backend: the discount-code table, the code          *)
(* generator, the payment intents held by the gateway and the HTTP         *)
(* handlers that read and write them.                                      *)
(*                                                                         *)
(* Two revisions of the server are in the repository.  src/server.js is    *)
(* the latest one; src/unnamed/part_002 is an earlier one that still has   *)
(* the administrative endpoints (generate, patch, delete, cleanup) and the *)
(* same calculateDiscountedPrice, createDiscountCode, webhook and          *)
(* create-payment-intent code.  The model is the union of the handlers     *)
(* over the one discountCodes table they share.                            *)
(*                                                                         *)
(* Time is counted in units of thirty days; a handler reads the clock      *)
(* (new Date(), Date.now()) as the variable now.                           *)
(***************************************************************************)
EXTENDS Integers, Sequences, FiniteSets, TLC

\* ----- bounds of the model ------------------------------------------------
\* the clock runs from 0 to MaxTime
MaxTime == 2
\* requests that changed the state: payment intents created, discount codes
\* issued by email, administrative requests that succeeded
MaxRequests == 3
\* deliveries of payment_intent.succeeded the gateway makes, redeliveries
\* included
MaxDeliveries == 3
\* administrative requests that changed the table
MaxAdminOps == 1
\* the rows the sheet holds when /api/booking-confirmation stops being called
MaxRows == 2
\* the minutes the keep-alive system is followed for
MaxMinute == 14

\* ----- values ---------------------------------------------------------------
\* JavaScript null and undefined, kept apart from every number of the model
Null == -1
Undefined == -2

\* 30 * 24 * 60 * 60 * 1000 ms, one unit of the model's clock
ThirtyDays == 1

\* createDiscountCode's default for maxUses, also `maxUses || 100` in the route
DefaultMaxUses == 100

\* maxUses of the pre-seeded FIRST10
FirstMaxUses == 500

\* originalAmount of /api/create-payment-intent and the default of
\* /api/validate-discount, in cents
OriginalAmount == 15000

\* generateUniqueCode's maxRetries
MaxRetries == 10

\* new Date('2025-12-31'), the validUntil generateInitialCodes gives its
\* codes, on the model's clock: the server starts about a year before it
InitialValidUntil == 12

\* String.prototype.toUpperCase on the strings of the model
ToUpperCase(s) ==
    CASE s = "first10" -> "FIRST10"
      [] s = "hello10" -> "HELLO10"
      [] s = "welcome10" -> "WELCOME10"
      [] OTHER -> s

\* this.prefixes (the model keeps two categories: two of welcome's prefixes,
\* one of general's)
Prefixes ==
    [c \in {"welcome", "general"} |->
        IF c = "welcome" THEN {"WELCOME", "HELLO"} ELSE {"SAVE"}]

\* this.suffixes (the model keeps one of them)
Suffixes == {"10"}

\* Date.now().toString().slice(-4) : the low-order digits of the clock
TimestampDigits == {"4821"}

\* the strings generateRandomCode can return (the model keeps one)
RandomCodes == {"K7Q2ZP9A"}

\* JavaScript truthiness of a number-or-null (null, undefined and 0 are falsy)
Truthy(x) == x # Null /\ x # Undefined /\ x # 0

\* truthiness of a Date-or-null (every Date object is truthy)
TruthyDate(d) == d # Null /\ d # Undefined

\* ----- state ------------------------------------------------------------------
VARIABLES
    discountCodes,    \* the module-level table: key -> code record
    generatedCodes,   \* codeGenerator.generatedCodes: the keys of the Map
    intents,          \* payment intents held by the gateway, by creation order
    now,              \* the clock
    env,              \* process.env / configured collaborators
    adminOps,         \* administrative requests that changed the table
    emailRequests,    \* /api/send-discount-email requests that issued a code
    rows,             \* the rows of the sheet 'Prenotazioni', in append order
    sent,             \* what the last request served sent out: emails, events
    timers,           \* the callbacks of the keep-alive system that are scheduled
    minute,           \* the clock of the keep-alive system, in minutes since start
    res               \* the last request served and its response

vars == <<discountCodes, generatedCodes, intents, now, env, adminOps,
          emailRequests, rows, sent, timers, minute, res>>

\* the state of the keep-alive system
keepAlive == <<timers, minute>>

\* the table at module load (assignedTo is absent from these records)
SeedCodes ==
    [k \in {"WELCOME10", "STUDENT10", "FIRST10"} |->
        [type |-> "percentage", value |-> 10,
         description |-> CASE k = "WELCOME10" -> "Benvenuto - Sconto 10%"
                           [] k = "STUDENT10" -> "Studenti - Sconto 10%"
                           [] OTHER -> "Prima Consulenza - Sconto 10%",
         active |-> TRUE,
         maxUses |-> IF k = "FIRST10" THEN FirstMaxUses ELSE Null,
         usedCount |-> 0, validUntil |-> Null, assignedTo |-> Null]]

\* obj[key] = value on a JavaScript object
Put(obj, key, value) ==
    [k \in (DOMAIN obj) \cup {key} |-> IF k = key THEN value ELSE obj[k]]

\* delete obj[key]
Remove(obj, key) ==
    [k \in (DOMAIN obj) \ {key} |-> obj[k]]

Has(obj, key) == key \in DOMAIN obj

\* ----- calculateDiscountedPrice ------------------------------------------------
\* a rounding that drops the fraction
FloorDiv100(n) == n \div 100

\* Math.round on a non-negative quotient n / 100
RoundDiv100(n) == (n + 50) \div 100

Min(a, b) == IF a < b THEN a ELSE b

\* a maximum that keeps its first argument
First(a, b) == a

Max(a, b) == IF a > b THEN a ELSE b

\* the three checks of calculateDiscountedPrice, in the order of the code;
\* "" when the code passes all of them
DiscountError(table, discountCode, t) ==
    LET key == ToUpperCase(discountCode) IN
    IF ~Has(table, key) \/ ~table[key].active
    THEN "Codice sconto non valido"
    ELSE IF TruthyDate(table[key].validUntil) /\ t > table[key].validUntil
    THEN "Codice sconto scaduto"
    ELSE IF Truthy(table[key].maxUses) /\ table[key].usedCount >= table[key].maxUses
    THEN "Codice sconto esaurito"
    ELSE ""

\* the value calculateDiscountedPrice(originalPrice, discountCode) returns
\* when it reads `table` at time t
calculateDiscountedPrice(table, originalPrice, discountCode, t) ==
    LET key == ToUpperCase(discountCode)
        error == DiscountError(table, discountCode, t)
    IN
    IF error # ""
    THEN [valid |-> FALSE, error |-> error]
    ELSE
        LET discount == table[key]
            discountAmount ==
                IF discount.type = "percentage"
                THEN RoundDiv100(originalPrice * discount.value)
                ELSE IF discount.type = "fixed"
                THEN Min(discount.value, originalPrice)
                ELSE 0
        IN [valid |-> TRUE, originalPrice |-> originalPrice,
            discountAmount |-> discountAmount,
            finalPrice |-> Max(originalPrice - discountAmount, 0),
            discountCode |-> key,
            discountDescription |-> discount.description,
            discountType |-> discount.type, discountValue |-> discount.value]

\* ----- DiscountCodeGenerator ---------------------------------------------------
Categories == DOMAIN Prefixes

\* isCodeUnique
isCodeUnique(code) ==
    code \notin generatedCodes /\ ~Has(discountCodes, code)

\* the strings one draw of generateUniqueCode's loop can produce
\* (generateThematicCode(category) or generateRandomCode()); category is valid
Draws(category) ==
    IF category # "" 
    THEN {p \o s : p \in Prefixes[category], s \in Suffixes}
    ELSE RandomCodes

\* the strings the timestamp fallback can produce
FallbackCodes(category) ==
    IF category # ""
    THEN {p \o ts : p \in Prefixes[category], ts \in TimestampDigits}
    ELSE {r \o ts : r \in RandomCodes, ts \in TimestampDigits}

\* the do-while loop of generateUniqueCode after `attempts` draws: the set of
\* <<code, attempts>> pairs it can leave the loop with
RECURSIVE LoopExits(_, _)
LoopExits(category, attempts) ==
    LET stop == {<<c, attempts + 1>> : c \in
                    {d \in Draws(category) :
                        isCodeUnique(d) \/ attempts + 1 >= MaxRetries}}
        again == IF attempts + 1 < MaxRetries
                    /\ \E d \in Draws(category) : ~isCodeUnique(d)
                 THEN LoopExits(category, attempts + 1)
                 ELSE {}
    IN stop \cup again

\* the codes generateUniqueCode(category) can return; category "" is null
generateUniqueCode(category) ==
    UNION {IF e[2] >= MaxRetries THEN FallbackCodes(category) ELSE {e[1]} :
           e \in LoopExits(category, 0)}

\* whether createDiscountCode(options) throws: only generateThematicCode
\* checks the category, and it runs only when no customCode is given
CreateThrows(category, customCode) ==
    customCode = "" /\ category # "" /\ category \notin Categories

\* the keys createDiscountCode(options) can store its new code under
CreatedCodes(category, customCode) ==
    IF customCode # "" THEN {customCode} ELSE generateUniqueCode(category)

\* the description createDiscountCode gives a code
AutoDescription(category, description) ==
    IF description # "" THEN description
    ELSE IF category = "" THEN "Codice Automatico - Sconto 10%"
    ELSE IF category = "welcome" THEN "Benvenuto - Sconto 10%"
    ELSE IF category = "general" THEN "Offerta Generale - Sconto 10%"
    ELSE "undefined - Sconto 10%"

\* the record a route copies from createDiscountCode's result into the table
NewCode(category, description, maxUses, validUntil, assignedTo) ==
    [type |-> "percentage", value |-> 10,
     description |-> AutoDescription(category, description),
     active |-> TRUE, maxUses |-> maxUses, usedCount |-> 0,
     validUntil |-> validUntil, assignedTo |-> assignedTo]

\* the table when startServer has called generateInitialCodes: the seeds and
\* the generated codes (the model keeps one of the twelve, of category general)
InitialCodes ==
    Put(SeedCodes, "SAVE10",
        NewCode("general", "", 100, InitialValidUntil, Null))

\* ----- inputs ------------------------------------------------------------------
\* discount codes a customer types ("" is none); the lookup upper-cases them
CustomerCodes == {"", "first10", "hello10", "NOPE"}

\* the discountCode field of /api/create-payment-intent
PaymentCodes == {"", "hello10", "NOPE"}

\* the amount field of /api/validate-discount
Amounts == {Undefined, 995}

\* the email field of /api/send-discount-email ("" is missing)
Emails == {"", "not-an-email", "ann@example.com"}

\* the :code parameter of the administrative routes
AdminTargets == {"hello10", "NOPE"}

\* request bodies of PATCH /api/discount-code/:code (each field is absent,
\* "undefined"/Undefined, or given)
PatchBody(active, maxUses, validUntil) ==
    [active |-> active, maxUses |-> maxUses, validUntil |-> validUntil]

PatchBodies ==
    {PatchBody("false", Undefined, Undefined),
     PatchBody("true", Undefined, Undefined),
     PatchBody("undefined", 0, Undefined),
     PatchBody("undefined", Undefined, 0)}

\* request bodies of POST /api/generate-discount-code ("" is an absent string)
GenerateBody(category, maxUses, validUntil, customCode) ==
    [category |-> category, maxUses |-> maxUses, validUntil |-> validUntil,
     customCode |-> customCode]

GenerateBodies ==
    {GenerateBody("", Undefined, Undefined, ""),
     GenerateBody("welcome", 1, 1, ""),
     GenerateBody("bogus", Undefined, Undefined, ""),
     GenerateBody("bogus", Undefined, Undefined, "first10"),
     GenerateBody("", 0, Undefined, "HELLO10"),
     GenerateBody("", Undefined, Undefined, "hello10")}

\* an appointment: appointmentDate and appointmentTime of a request ("" when
\* the request has none), two times of one date
NoSlot == ""
Slots == {"14:00", "15:30"}

\* what the process has been configured with: the mail transporter,
\* STRIPE_WEBHOOK_SECRET, ADMIN_EMAIL, the sheet (sheets and
\* GOOGLE_SPREADSHEET_ID), the calendar (calendar and GOOGLE_CALENDAR_ID)
Config(transporter, webhookSecret, adminEmail, sheets, calendar) ==
    [transporter |-> transporter, webhookSecret |-> webhookSecret,
     adminEmail |-> adminEmail, sheets |-> sheets, calendar |-> calendar]

\* the configurations of the process: payments and mail set and the Google
\* services not initialised, or nothing set
Configs ==
    {Config(TRUE, TRUE, TRUE, FALSE, FALSE),
     Config(FALSE, FALSE, FALSE, FALSE, FALSE)}

\* the configurations with the Google services initialised
BookingConfigs ==
    {Config(TRUE, TRUE, TRUE, TRUE, TRUE)}

\* ----- initial state -------------------------------------------------------------
Init ==
    /\ discountCodes = InitialCodes
    /\ generatedCodes = {"SAVE10"}
    /\ intents = <<>>
    /\ now = 0
    /\ env \in Configs
    /\ adminOps = 0
    /\ emailRequests = 0
    /\ rows = <<>>
    /\ sent = {}
    /\ timers = <<>>
    /\ minute = 0
    /\ res = [op |-> "start"]

\* the state-changing requests served so far
Requests == Len(intents) + emailRequests + adminOps

\* the payment_intent.succeeded events delivered so far
RECURSIVE Delivered(_)
Delivered(is) ==
    IF is = <<>> THEN 0 ELSE Head(is).delivered + Delivered(Tail(is))

\* ----- POST /api/validate-discount ------------------------------------------------
\* a validate-discount that counts a use of the code it finds valid
ValidateDiscountCounting ==
    \E code \in CustomerCodes \ {""}, amount \in Amounts :
        LET originalAmount == IF Truthy(amount) THEN amount ELSE OriginalAmount
            result == calculateDiscountedPrice(discountCodes, originalAmount,
                          code, now)
        IN /\ res' = [op |-> "validate-discount",
                      status |-> IF result.valid THEN 200 ELSE 400,
                      code |-> code, amount |-> amount, at |-> now,
                      result |-> result]
           /\ discountCodes' =
                IF result.valid
                THEN [discountCodes EXCEPT ![ToUpperCase(code)].usedCount = @ + 1]
                ELSE discountCodes
           /\ sent' = {}
           /\ UNCHANGED <<rows, now, generatedCodes, intents, env, adminOps,
                          emailRequests, keepAlive>>

\* the response carries the request (code, amount) and the time it was
\* evaluated at
ValidateDiscount ==
    \E code \in CustomerCodes, amount \in Amounts :
        /\ IF code = ""
           THEN res' = [op |-> "validate-discount", status |-> 400,
                        error |-> "Codice sconto richiesto"]
           ELSE LET originalAmount == IF Truthy(amount) THEN amount
                                      ELSE OriginalAmount
                    result == calculateDiscountedPrice(discountCodes,
                                  originalAmount, code, now)
                IN res' = [op |-> "validate-discount",
                           status |-> IF result.valid THEN 200 ELSE 400,
                           code |-> code, amount |-> amount, at |-> now,
                           result |-> result]
        /\ sent' = {}
        /\ UNCHANGED <<rows, now, discountCodes, generatedCodes, intents, env, adminOps,
                       emailRequests, keepAlive>>

\* ----- POST /api/create-payment-intent ---------------------------------------------
\* a create-payment-intent that asks the gateway before it evaluates the code
CreatePaymentIntentUnpriced(slots) ==
    \E code \in PaymentCodes, slot \in slots, contact \in BOOLEAN,
       keyOk \in BOOLEAN, gatewayOk \in BOOLEAN :
        /\ Requests < MaxRequests
        /\ LET result == IF code = "" THEN [valid |-> TRUE]
                         ELSE calculateDiscountedPrice(discountCodes,
                                  OriginalAmount, code, now)
           IN
           IF ~contact
           THEN /\ res' = [op |-> "create-payment-intent", status |-> 400,
                           slot |-> slot, code |-> code,
                           error |-> "Email e nome sono richiesti"]
                /\ UNCHANGED intents
           ELSE IF ~keyOk \/ ~gatewayOk
           THEN /\ res' = [op |-> "create-payment-intent", status |-> 500,
                           slot |-> slot, code |-> code,
                           error |-> "Errore nel processare il pagamento"]
                /\ UNCHANGED intents
           ELSE /\ intents' = Append(intents,
                        [discountCode |-> code, amount |-> OriginalAmount,
                         slot |-> slot, delivered |-> 0])
                /\ res' = IF result.valid
                          THEN [op |-> "create-payment-intent", status |-> 200,
                                slot |-> slot,
                                paymentIntentId |-> Len(intents) + 1,
                                code |-> code]
                          ELSE [op |-> "create-payment-intent", status |-> 400,
                                slot |-> slot, code |-> code,
                                error |-> result.error]
        /\ sent' = {}
        /\ UNCHANGED <<rows, now, discountCodes, generatedCodes, env, adminOps,
                       emailRequests, keepAlive>>

\* contact: email and name are present; keyOk: STRIPE_SECRET_KEY is set;
\* gatewayOk: stripe.paymentIntents.create returns (it throws otherwise);
\* slots: the appointments the requests ask for
CreatePaymentIntentWith(slots) ==
    \E code \in PaymentCodes, slot \in slots, contact \in BOOLEAN,
       keyOk \in BOOLEAN, gatewayOk \in BOOLEAN :
        /\ Requests < MaxRequests
        /\ LET result == IF code = "" THEN [valid |-> TRUE]
                         ELSE calculateDiscountedPrice(discountCodes,
                                  OriginalAmount, code, now)
               finalAmount == IF code = "" THEN OriginalAmount
                              ELSE result.finalPrice
           IN
           IF ~contact
           THEN /\ res' = [op |-> "create-payment-intent", status |-> 400,
                           slot |-> slot, code |-> code,
                           error |-> "Email e nome sono richiesti"]
                /\ UNCHANGED intents
           ELSE IF ~keyOk
           THEN /\ res' = [op |-> "create-payment-intent", status |-> 500,
                           slot |-> slot, code |-> code,
                           error |-> "Errore nel processare il pagamento"]
                /\ UNCHANGED intents
           ELSE IF ~result.valid
           THEN /\ res' = [op |-> "create-payment-intent", status |-> 400,
                           slot |-> slot, code |-> code,
                           error |-> result.error]
                /\ UNCHANGED intents
           ELSE IF ~gatewayOk
           THEN /\ res' = [op |-> "create-payment-intent", status |-> 500,
                           slot |-> slot, code |-> code,
                           error |-> "Errore nel processare il pagamento"]
                /\ UNCHANGED intents
           ELSE /\ intents' = Append(intents,
                        [discountCode |-> code, amount |-> finalAmount,
                         slot |-> slot, delivered |-> 0])
                /\ res' = [op |-> "create-payment-intent", status |-> 200,
                           slot |-> slot,
                           paymentIntentId |-> Len(intents) + 1,
                           code |-> code]
        /\ sent' = {}
        /\ UNCHANGED <<rows, now, discountCodes, generatedCodes, env, adminOps,
                       emailRequests, keepAlive>>

\* requests that name no appointment
CreatePaymentIntent == CreatePaymentIntentWith({NoSlot})

\* requests that name one
BookPaymentIntent == CreatePaymentIntentWith(Slots)

\* ----- POST /api/stripe-webhook -------------------------------------------------------
\* the payment_intent.succeeded branch's write to the table: the code named in
\* the intent's metadata, if it is in the table, gets usedCount++
Redeem(table, discountCode) ==
    LET key == ToUpperCase(discountCode) IN
    IF discountCode # "" /\ Has(table, key)
    THEN [table EXCEPT ![key].usedCount = @ + 1]
    ELSE table

\* a webhook that, without an endpoint secret, reads the event of the body
\* and counts the use of the code of the payment intent it names
WebhookUnverifiedCounting ==
    \E signed \in BOOLEAN, i \in 1..Len(intents) :
        /\ ~env.webhookSecret \/ ~signed
        /\ Delivered(intents) < MaxDeliveries
        /\ res' = [op |-> "stripe-webhook",
                   status |-> IF ~env.webhookSecret THEN 200 ELSE 400,
                   event |-> "none"]
        /\ sent' = {}
        /\ IF env.webhookSecret
           THEN UNCHANGED <<discountCodes, intents>>
           ELSE /\ discountCodes' = Redeem(discountCodes, intents[i].discountCode)
                /\ intents' = [intents EXCEPT ![i].delivered = @ + 1]
        /\ UNCHANGED <<rows, now, generatedCodes, env, adminOps, emailRequests,
                       keepAlive>>

\* a request without a configured endpoint secret, or one whose signature
\* constructEvent rejects: answered before any event is read
WebhookUnverified ==
    \E signed \in BOOLEAN :
        /\ ~env.webhookSecret \/ ~signed
        /\ res' = [op |-> "stripe-webhook",
                   status |-> IF ~env.webhookSecret THEN 200 ELSE 400,
                   event |-> "none"]
        /\ sent' = {}
        /\ UNCHANGED <<rows, now, discountCodes, generatedCodes, intents, env, adminOps,
                       emailRequests, keepAlive>>

\* the row saveBookingToGoogleSheets builds for payment intent i
Row(i) ==
    [slot |-> intents[i].slot, paymentIntent |-> i, status |-> "Confermata"]

\* the sheet after saveBookingToGoogleSheets(bookingData): nothing is appended
\* when the sheet is not configured or when the append rejects (caught)
saveBookingToGoogleSheets(sheet, row, appendOk) ==
    IF env.sheets /\ appendOk THEN Append(sheet, row) ELSE sheet

\* whether createGoogleMeetEvent returns a meetingInfo (it returns null when
\* the calendar is not configured, when the appointment is no date, and when
\* events.insert rejects)
createGoogleMeetEvent(slot, insertOk) ==
    env.calendar /\ slot # NoSlot /\ insertOk

\* what the webhook's succeeded branch sends out: the customer's confirmation,
\* then the Meet link (scheduleReminderEmail, sent at once) when there is a
\* meetingInfo, then the admin's notification; a rejected sendMail of the
\* confirmation or of the notification is caught and ends the sending
WebhookNotices(meeting, customerOk, meetOk, adminOk) ==
    (IF meeting THEN {"calendar-event"} ELSE {})
    \cup (IF env.transporter /\ customerOk
          THEN {"confirmation-email"}
               \cup (IF meeting /\ meetOk THEN {"meet-link-email"} ELSE {})
               \cup (IF env.adminEmail /\ adminOk
                     THEN {"admin-email"} ELSE {})
          ELSE {})

\* a succeeded branch that does not catch a rejected sendMail: the handler
\* ends without res.json and the request is answered 500
WebhookSucceededUncaught ==
    \E i \in 1..Len(intents) :
        /\ env.webhookSecret
        /\ Delivered(intents) < MaxDeliveries
        /\ discountCodes' = Redeem(discountCodes, intents[i].discountCode)
        /\ intents' = [intents EXCEPT ![i].delivered = @ + 1]
        /\ \E appendOk \in {ok \in BOOLEAN : ok => env.sheets} :
              rows' = saveBookingToGoogleSheets(rows, Row(i), appendOk)
        /\ \E meeting \in {createGoogleMeetEvent(intents[i].slot, ok) :
                                ok \in BOOLEAN},
              customerOk \in BOOLEAN, meetOk \in BOOLEAN, adminOk \in BOOLEAN :
              /\ sent' = WebhookNotices(meeting, customerOk, meetOk, adminOk)
              /\ res' = [op |-> "stripe-webhook",
                         status |-> IF env.transporter /\ ~customerOk
                                    THEN 500 ELSE 200,
                         event |-> "payment_intent.succeeded",
                         paymentIntentId |-> i,
                         code |-> intents[i].discountCode]
        /\ UNCHANGED <<now, generatedCodes, env, adminOps, emailRequests,
                       keepAlive>>

\* the gateway delivers payment_intent.succeeded for intent i: the customer's
\* payment has succeeded.  The gateway may deliver the same event again;
\* delivered counts the deliveries of the intent's event.
WebhookSucceeded ==
    \E i \in 1..Len(intents) :
        /\ env.webhookSecret
        /\ Delivered(intents) < MaxDeliveries
        /\ discountCodes' = Redeem(discountCodes, intents[i].discountCode)
        /\ intents' = [intents EXCEPT ![i].delivered = @ + 1]
        /\ \E appendOk \in {ok \in BOOLEAN : ok => env.sheets} :
              rows' = saveBookingToGoogleSheets(rows, Row(i), appendOk)
        /\ \E meeting \in {createGoogleMeetEvent(intents[i].slot, ok) :
                                ok \in BOOLEAN} :
              sent' \in {WebhookNotices(meeting, customerOk, meetOk, adminOk) :
                            customerOk \in BOOLEAN, meetOk \in BOOLEAN,
                            adminOk \in BOOLEAN}
        /\ res' = [op |-> "stripe-webhook", status |-> 200,
                   event |-> "payment_intent.succeeded",
                   paymentIntentId |-> i,
                   code |-> intents[i].discountCode]
        /\ UNCHANGED <<now, generatedCodes, env, adminOps, emailRequests,
                       keepAlive>>

\* a webhook that counts the code of a payment intent when its payment fails
WebhookOtherCounting ==
    \E i \in 1..Len(intents) :
        /\ env.webhookSecret
        /\ intents[i].delivered = 0
        /\ discountCodes' = Redeem(discountCodes, intents[i].discountCode)
        /\ res' = [op |-> "stripe-webhook", status |-> 200,
                   event |-> "payment_intent.payment_failed"]
        /\ sent' = {}
        /\ UNCHANGED <<rows, now, generatedCodes, intents, env, adminOps,
                       emailRequests, keepAlive>>

\* the gateway delivers payment_intent.payment_failed for intent i (an attempt
\* to pay it failed; the intent has not succeeded), or an event of a type the
\* switch does not handle
WebhookOther ==
    \E i \in 1..Len(intents),
       type \in {"payment_intent.payment_failed", "payment_intent.created"} :
        /\ env.webhookSecret
        /\ type = "payment_intent.payment_failed" => intents[i].delivered = 0
        /\ res' = [op |-> "stripe-webhook", status |-> 200, event |-> type]
        /\ sent' = {}
        /\ UNCHANGED <<rows, now, discountCodes, generatedCodes, intents, env, adminOps,
                       emailRequests, keepAlive>>

\* ----- POST /api/send-discount-email ---------------------------------------------------
\* /^[^\s@]+@[^\s@]+\.[^\s@]+$/ on the addresses of the model
EmailRegexTest(email) == email = "ann@example.com"

\* mailOk: transporter.sendMail resolves (it rejects otherwise)
SendDiscountEmail ==
    \E email \in Emails, mailOk \in BOOLEAN :
        /\ IF email = ""
           THEN /\ res' = [op |-> "send-discount-email", status |-> 400,
                           error |-> "Email richiesta"]
                /\ sent' = {}
                /\ UNCHANGED <<now, discountCodes, generatedCodes, emailRequests>>
           ELSE IF ~env.transporter
           THEN /\ res' = [op |-> "send-discount-email", status |-> 500,
                           error |-> "Servizio email non configurato"]
                /\ sent' = {}
                /\ UNCHANGED <<now, discountCodes, generatedCodes, emailRequests>>
           ELSE IF ~EmailRegexTest(email)
           THEN /\ res' = [op |-> "send-discount-email", status |-> 400,
                           error |-> "Email non valida"]
                /\ sent' = {}
                /\ UNCHANGED <<now, discountCodes, generatedCodes, emailRequests>>
           ELSE /\ Requests < MaxRequests
                /\ \E code \in CreatedCodes("welcome", "") :
                    /\ generatedCodes' = generatedCodes \cup {code}
                    /\ discountCodes' = Put(discountCodes, code,
                            NewCode("welcome",
                                    "Email Signup Discount - Sconto 10%",
                                    1, now + ThirtyDays, email))
                    /\ sent' = IF mailOk THEN {"discount-email"} ELSE {}
                    /\ res' = IF mailOk
                              THEN [op |-> "send-discount-email",
                                    status |-> 200, code |-> code,
                                    email |-> email]
                              ELSE [op |-> "send-discount-email",
                                    status |-> 500, code |-> code,
                                    error |-> "Errore nell'invio dell'email"]
                /\ emailRequests' = emailRequests + 1
        /\ UNCHANGED <<rows, now, intents, env, adminOps, keepAlive>>

\* ----- POST /api/generate-discount-code ------------------------------------------------
\* the response carries the category of the request
GenerateDiscountCode ==
    \E body \in GenerateBodies :
        /\ adminOps < MaxAdminOps
        /\ Requests < MaxRequests
        /\ IF CreateThrows(body.category, body.customCode)
           THEN /\ res' = [op |-> "generate-discount-code", status |-> 500,
                           category |-> body.category,
                           error |-> "Errore nella generazione del codice sconto"]
                /\ UNCHANGED <<now, discountCodes, generatedCodes, adminOps>>
           ELSE \E code \in CreatedCodes(body.category, body.customCode) :
                    /\ generatedCodes' = generatedCodes \cup {code}
                    /\ discountCodes' = Put(discountCodes, code,
                            NewCode(body.category, "",
                                    IF Truthy(body.maxUses) THEN body.maxUses
                                    ELSE DefaultMaxUses,
                                    IF TruthyDate(body.validUntil)
                                    THEN body.validUntil ELSE Null,
                                    Null))
                    /\ res' = [op |-> "generate-discount-code", status |-> 200,
                               category |-> body.category, code |-> code]
                    /\ adminOps' = adminOps + 1
        /\ sent' = {}
        /\ UNCHANGED <<rows, now, intents, env, emailRequests, keepAlive>>

\* ----- PATCH /api/discount-code/:code ----------------------------------------------------
PatchDiscountCode ==
    \E code \in AdminTargets, body \in PatchBodies :
        /\ adminOps < MaxAdminOps
        /\ Requests < MaxRequests
        /\ LET upperCode == ToUpperCase(code) IN
           IF ~Has(discountCodes, upperCode)
           THEN /\ res' = [op |-> "patch-discount-code", status |-> 404,
                           error |-> "Codice non trovato"]
                /\ UNCHANGED <<now, discountCodes, adminOps>>
           ELSE /\ discountCodes' = [discountCodes EXCEPT ![upperCode] =
                        [@ EXCEPT
                            !.active = IF body.active = "undefined" THEN @
                                       ELSE body.active = "true",
                            !.maxUses = IF body.maxUses = Undefined THEN @
                                        ELSE body.maxUses,
                            !.validUntil = IF TruthyDate(body.validUntil)
                                           THEN body.validUntil ELSE @]]
                /\ res' = [op |-> "patch-discount-code", status |-> 200,
                           code |-> upperCode]
                /\ adminOps' = adminOps + 1
        /\ sent' = {}
        /\ UNCHANGED <<rows, now, generatedCodes, intents, env, emailRequests,
                       keepAlive>>

\* ----- DELETE /api/discount-code/:code ---------------------------------------------------
DeleteDiscountCode ==
    \E code \in AdminTargets :
        /\ adminOps < MaxAdminOps
        /\ Requests < MaxRequests
        /\ LET upperCode == ToUpperCase(code) IN
           IF ~Has(discountCodes, upperCode)
           THEN /\ res' = [op |-> "delete-discount-code", status |-> 404,
                           error |-> "Codice non trovato"]
                /\ UNCHANGED <<now, discountCodes, adminOps>>
           ELSE /\ discountCodes' = Remove(discountCodes, upperCode)
                /\ res' = [op |-> "delete-discount-code", status |-> 200,
                           code |-> upperCode]
                /\ adminOps' = adminOps + 1
        /\ sent' = {}
        /\ UNCHANGED <<rows, now, generatedCodes, intents, env, emailRequests,
                       keepAlive>>

\* ----- the expiry sweep ----------------------------------------------------------------------
\* a sweep test that takes validUntil itself as already past
ExpiredInclusive(table, t) ==
    {k \in DOMAIN table :
        /\ TruthyDate(table[k].validUntil)
        /\ t >= table[k].validUntil
        /\ table[k].active}

\* the keys the forEach of the sweep flips at time t
Expired(table, t) ==
    {k \in DOMAIN table :
        /\ TruthyDate(table[k].validUntil)
        /\ t > table[k].validUntil
        /\ table[k].active}

\* a sweep that takes the expired codes out of the table
Purge(table, keys) ==
    [k \in (DOMAIN table) \ keys |-> table[k]]

\* the table after the forEach
Deactivate(table, keys) ==
    [k \in DOMAIN table |->
        IF k \in keys THEN [table[k] EXCEPT !.active = FALSE] ELSE table[k]]

\* POST /api/cleanup-expired-codes; `at` is the sweep's `const now = new Date()`
CleanupExpiredCodes ==
    /\ discountCodes' = Deactivate(discountCodes, Expired(discountCodes, now))
    /\ res' = [op |-> "cleanup-expired-codes", status |-> 200,
               deactivatedCount |-> Cardinality(Expired(discountCodes, now)),
               at |-> now]
    /\ sent' = {}
    /\ UNCHANGED <<rows, now, generatedCodes, intents, env, adminOps, emailRequests,
                   keepAlive>>

\* the setInterval callback of startServer; it logs deactivatedCount
HourlyCleanup ==
    /\ discountCodes' = Deactivate(discountCodes, Expired(discountCodes, now))
    /\ res' = [op |-> "hourly-cleanup",
               deactivatedCount |-> Cardinality(Expired(discountCodes, now)),
               at |-> now]
    /\ sent' = {}
    /\ UNCHANGED <<rows, now, generatedCodes, intents, env, adminOps, emailRequests,
                   keepAlive>>

\* ----- the clock ------------------------------------------------------------------------------
\* time passes between requests
Tick ==
    /\ now < MaxTime
    /\ now' = now + 1
    /\ UNCHANGED <<rows, sent, discountCodes, generatedCodes, intents, env, adminOps,
                   emailRequests, res, keepAlive>>

\* ----- the system ---------------------------------------------------------------------------
\* the customer routes, the webhook and the expiry sweep (the hourly timer of
\* both revisions and the sweep route of src/unnamed/part_002): no code is
\* generated, patched or deleted by hand
Next ==
    \/ ValidateDiscount
    \/ CreatePaymentIntent
    \/ WebhookUnverified
    \/ WebhookSucceeded
    \/ WebhookOther
    \/ SendDiscountEmail
    \/ CleanupExpiredCodes
    \/ HourlyCleanup
    \/ Tick

Spec == Init /\ [][Next]_vars

\* the same with the routes of src/unnamed/part_002 that generate, patch and
\* delete codes
NextAdmin ==
    \/ ValidateDiscount
    \/ CreatePaymentIntent
    \/ WebhookUnverified
    \/ WebhookSucceeded
    \/ WebhookOther
    \/ SendDiscountEmail
    \/ GenerateDiscountCode
    \/ PatchDiscountCode
    \/ DeleteDiscountCode
    \/ CleanupExpiredCodes
    \/ HourlyCleanup
    \/ Tick

SpecAdmin == Init /\ [][NextAdmin]_vars

\* ----- calculateDiscountedPrice on codes of both types --------------------------------------
\* the type and value fields a code record can hold (value is not negative)
Types == {"percentage", "fixed"}
Values == {0, 5, 10, 33, 100, 150, 5000}

\* the prices calculateDiscountedPrice is called with, in cents
Prices == {0, 1, 5, 500, 995, 1005, 15000}

\* the table of startServer with HELLO10 in it as a code of type ty, value v
PricedCodes(ty, v) ==
    Put(InitialCodes, "HELLO10",
        [NewCode("welcome", "", DefaultMaxUses, Null, Null)
            EXCEPT !.type = ty, !.value = v])

InitPrice ==
    /\ discountCodes \in {PricedCodes(ty, v) : ty \in Types, v \in Values}
    /\ generatedCodes = {"SAVE10", "HELLO10"}
    /\ intents = <<>>
    /\ now = 0
    /\ env \in Configs
    /\ adminOps = 0
    /\ emailRequests = 0
    /\ rows = <<>>
    /\ sent = {}
    /\ timers = <<>>
    /\ minute = 0
    /\ res = [op |-> "start"]

\* one call calculateDiscountedPrice(originalPrice, 'hello10')
Evaluate ==
    \E originalPrice \in Prices :
        /\ res' = [op |-> "evaluate", originalPrice |-> originalPrice,
                   result |-> calculateDiscountedPrice(discountCodes,
                                  originalPrice, "hello10", now)]
        /\ UNCHANGED <<rows, sent, now, discountCodes, generatedCodes, intents, env,
                       adminOps, emailRequests, keepAlive>>

NextPrice ==
    \/ Evaluate
    \/ CreatePaymentIntent

SpecPrice == InitPrice /\ [][NextPrice]_vars

\* ----- POST /api/booking-confirmation -------------------------------------------------------
\* the client reports the booking of payment intent i (the route looks
\* nothing up: the body is the client's): the row is appended, the event
\* created, then the customer's confirmation, the Meet link and the admin's
\* notification are sent; a rejected sendMail of the confirmation or of the
\* notification answers 500, the row staying appended
BookingConfirmation ==
    \E i \in 1..Len(intents), appendOk \in BOOLEAN, insertOk \in BOOLEAN,
       customerOk \in BOOLEAN, meetOk \in BOOLEAN, adminOk \in BOOLEAN :
        LET meeting == createGoogleMeetEvent(intents[i].slot, insertOk)
            failed == env.transporter
                      /\ (~customerOk \/ (env.adminEmail /\ ~adminOk))
        IN
        /\ Len(rows) < MaxRows
        /\ rows' = saveBookingToGoogleSheets(rows, Row(i), appendOk)
        /\ sent' = WebhookNotices(meeting, customerOk, meetOk, adminOk)
        /\ res' = [op |-> "booking-confirmation",
                   status |-> IF failed THEN 500 ELSE 200,
                   paymentIntentId |-> i]
        /\ UNCHANGED <<now, discountCodes, generatedCodes, intents, env,
                       adminOps, emailRequests, keepAlive>>

\* ----- bookings of appointments, every service configured ----------------------------------
InitBooking ==
    /\ discountCodes = InitialCodes
    /\ generatedCodes = {"SAVE10"}
    /\ intents = <<>>
    /\ now = 0
    /\ env \in BookingConfigs
    /\ adminOps = 0
    /\ emailRequests = 0
    /\ rows = <<>>
    /\ sent = {}
    /\ timers = <<>>
    /\ minute = 0
    /\ res = [op |-> "start"]

NextBooking ==
    \/ BookPaymentIntent
    \/ WebhookSucceeded
    \/ BookingConfirmation
    \/ SendDiscountEmail

SpecBooking == InitBooking /\ [][NextBooking]_vars

\* requests that all name the first appointment
BookFirstSlot == CreatePaymentIntentWith({"14:00"})

\* every service configured, with and without the webhook's endpoint secret
WebhookConfigs ==
    BookingConfigs \cup {Config(TRUE, FALSE, TRUE, TRUE, TRUE)}

InitNotify ==
    /\ discountCodes = InitialCodes
    /\ generatedCodes = {"SAVE10"}
    /\ intents = <<>>
    /\ now = 0
    /\ env \in WebhookConfigs
    /\ adminOps = 0
    /\ emailRequests = 0
    /\ rows = <<>>
    /\ sent = {}
    /\ timers = <<>>
    /\ minute = 0
    /\ res = [op |-> "start"]

\* the gateway's webhook alone confirming payments for one appointment (the
\* succeeded branch reads nothing of the sheet and nothing of other intents)
NextNotify ==
    \/ BookFirstSlot
    \/ WebhookUnverified
    \/ WebhookSucceeded
    \/ WebhookOther
    \/ SendDiscountEmail

SpecNotify == InitNotify /\ [][NextNotify]_vars

\* ----- the slot reconciliation guard ---------------------------------------------------------
\* the business days and the start times of a business day
Dates == {"2025-07-18", "2025-07-21"}
BusinessHours == {"09:00", "10:30", "14:00", "15:30", "17:00"}

\* the templates generateTemplate can return over Dates: every date it keeps
\* has the full business hours (today is skipped after the cutoff hour)
Templates ==
    {[d \in D |-> BusinessHours] : D \in (SUBSET Dates) \ {{}}}

\* a row of the store as the guard reads it
BookingRow(date, time, status) ==
    [date |-> date, time |-> time, status |-> status]

\* the rows of a set, in some order
RECURSIVE SeqOf(_)
SeqOf(S) ==
    IF S = {} THEN <<>>
    ELSE LET x == CHOOSE y \in S : TRUE IN <<x>> \o SeqOf(S \ {x})

\* the stores the guard is asked about: confirmed rows of any slots, rows of
\* another status, and a slot confirmed a second time
Stores ==
    {SeqOf({BookingRow(s[1], s[2], "Confermata") : s \in confirmed})
       \o SeqOf({BookingRow(d, "14:00", "Annullata") : d \in cancelled})
       \o SeqOf({BookingRow(s[1], s[2], "Confermata") : s \in again}) :
     confirmed \in SUBSET (Dates \X BusinessHours),
     cancelled \in SUBSET Dates,
     again \in SUBSET {<<"2025-07-18", "14:00">>}}

\* a fetch that keeps the rows of every status
fetchAllRows(sheet) == sheet

\* fetchConfirmed: the rows whose status is the confirmed literal
fetchConfirmed(sheet) ==
    SelectSeq(sheet, LAMBDA r : r.status = "Confermata")

\* the template with the time of each booking taken from its date
RECURSIVE Subtract(_, _)
Subtract(slots, bookings) ==
    IF bookings = <<>> THEN slots
    ELSE LET b == Head(bookings) IN
         Subtract(IF b.date \in DOMAIN slots
                  THEN [slots EXCEPT ![b.date] = @ \ {b.time}]
                  ELSE slots,
                  Tail(bookings))

\* the dates left with no time are not reported
DropEmpty(slots) ==
    [d \in {x \in DOMAIN slots : slots[x] # {}} |-> slots[d]]

\* availableSlots: the template minus the confirmed bookings; the full
\* template with a warning flag when the store cannot be reached
availableSlots(template, sheet, reachable) ==
    IF reachable
    THEN [slots |-> DropEmpty(Subtract(template, fetchConfirmed(sheet))),
          warning |-> FALSE]
    ELSE [slots |-> template, warning |-> TRUE]

\* isBooked: whether (date, time) is among the confirmed bookings; the source
\* treats an unreachable store as it does in availableSlots, as holding no
\* booking
isBooked(sheet, reachable, date, time) ==
    IF ~reachable THEN "free"
    ELSE IF \E r \in 1..Len(fetchConfirmed(sheet)) :
               /\ fetchConfirmed(sheet)[r].date = date
               /\ fetchConfirmed(sheet)[r].time = time
    THEN "booked"
    ELSE "free"

\* a query for the calendar of bookable slots
AvailableSlots ==
    \E template \in Templates, reachable \in BOOLEAN :
        /\ res' = [op |-> "available-slots", template |-> template,
                   reachable |-> reachable,
                   result |-> availableSlots(template, rows, reachable)]
        /\ UNCHANGED <<rows, sent, discountCodes, generatedCodes, intents, now,
                       env, adminOps, emailRequests, keepAlive>>

\* a point check of one slot
IsBooked ==
    \E date \in Dates, time \in BusinessHours, reachable \in BOOLEAN :
        /\ res' = [op |-> "is-booked", date |-> date, time |-> time,
                   reachable |-> reachable,
                   result |-> isBooked(rows, reachable, date, time)]
        /\ UNCHANGED <<rows, sent, discountCodes, generatedCodes, intents, now,
                       env, adminOps, emailRequests, keepAlive>>

InitSlots ==
    /\ discountCodes = InitialCodes
    /\ generatedCodes = {"SAVE10"}
    /\ intents = <<>>
    /\ now = 0
    /\ env \in BookingConfigs
    /\ adminOps = 0
    /\ emailRequests = 0
    /\ rows \in Stores
    /\ sent = {}
    /\ timers = <<>>
    /\ minute = 0
    /\ res = [op |-> "start"]

NextSlots ==
    \/ AvailableSlots
    \/ IsBooked

SpecSlots == InitSlots /\ [][NextSlots]_vars

\* ----- the keep-alive system -----------------------------------------------------------------
\* production: NODE_ENV === 'production'; renderUrl: RENDER_URL is set and
\* is not a localhost address
KeepAliveConfigs ==
    {[transporter |-> TRUE, webhookSecret |-> TRUE, adminEmail |-> TRUE,
      sheets |-> TRUE, calendar |-> TRUE,
      production |-> production, renderUrl |-> renderUrl] :
     production \in BOOLEAN, renderUrl \in BOOLEAN}

\* a scheduled callback that calls keepServerAlive: the cron task ("cron"),
\* the first ping one minute after start ("first"), the test of the listen
\* callback five seconds after start ("test"), a retry ("retry")
Timer(kind, at) == [kind |-> kind, at |-> at]

\* minutes between two runs of the cron task, and from a failed ping to its
\* retry
CronPeriod == 12
RetryDelay == 2

\* the callbacks scheduled when the module has loaded and the server listens
StartTimers(cfg) ==
    IF ~cfg.production THEN <<>>
    ELSE <<Timer("cron", CronPeriod), Timer("first", 1)>>
         \o (IF cfg.renderUrl THEN <<Timer("test", 0)>> ELSE <<>>)

\* the scheduled callbacks after keepServerAlive() has run; pingOk: the fetch
\* of /ping resolves with an ok response
keepServerAlive(ts, pingOk) ==
    IF env.production /\ env.renderUrl /\ ~pingOk
    THEN Append(ts, Timer("retry", minute + RetryDelay))
    ELSE ts

\* the sequence without its j-th element
Without(ts, j) ==
    SubSeq(ts, 1, j - 1) \o SubSeq(ts, j + 1, Len(ts))

\* a callback that is due runs: the cron task stays scheduled for its next
\* period, and keepServerAlive is called
Fire ==
    \E j \in 1..Len(timers), pingOk \in BOOLEAN :
        /\ timers[j].at = minute
        /\ LET rest == Without(timers, j)
               next == IF timers[j].kind = "cron"
                       THEN Append(rest, Timer("cron", minute + CronPeriod))
                       ELSE rest
           IN timers' = keepServerAlive(next, pingOk)
        /\ res' = [op |-> "keep-alive", kind |-> timers[j].kind,
                   pinged |-> env.production /\ env.renderUrl,
                   ok |-> pingOk]
        /\ UNCHANGED <<minute, rows, sent, discountCodes, generatedCodes,
                       intents, now, env, adminOps, emailRequests>>

\* a minute passes when every callback due has run
Advance ==
    /\ minute < MaxMinute
    /\ \A j \in 1..Len(timers) : timers[j].at > minute
    /\ minute' = minute + 1
    /\ UNCHANGED <<timers, rows, sent, discountCodes, generatedCodes, intents,
                   now, env, adminOps, emailRequests, res>>

InitKeepAlive ==
    /\ discountCodes = InitialCodes
    /\ generatedCodes = {"SAVE10"}
    /\ intents = <<>>
    /\ now = 0
    /\ env \in KeepAliveConfigs
    /\ adminOps = 0
    /\ emailRequests = 0
    /\ rows = <<>>
    /\ sent = {}
    /\ timers = StartTimers(env)
    /\ minute = 0
    /\ res = [op |-> "start"]

NextKeepAlive ==
    \/ Fire
    \/ Advance

SpecKeepAlive == InitKeepAlive /\ [][NextKeepAlive]_vars

\* ----- properties ------------------------------------------------------------------------------
\* a step that serves a request of kind op (only Tick leaves res alone, and it
\* moves the clock)
Serves(op) == now' = now /\ res'.op = op

\* a step that delivers payment_intent.succeeded for intent i
Delivery(i) ==
    /\ Len(intents') = Len(intents)
    /\ i \in 1..Len(intents)
    /\ intents'[i].delivered = intents[i].delivered + 1

\* the table key named by intent i
KeyOf(i) == ToUpperCase(intents[i].discountCode)

\* no payment_intent.succeeded event has been delivered twice
NoRedelivery == \A i \in 1..Len(intents) : intents[i].delivered <= 1

\* redeemable at time t, as the specification defines it
Redeemable(c, t) ==
    /\ c.active
    /\ c.validUntil = Null \/ t <= c.validUntil
    /\ c.maxUses = Null \/ c.usedCount < c.maxUses

SweepOps == {"cleanup-expired-codes", "hourly-cleanup"}

\* C1: in every reachable state every code whose maxUses is set has
\* usedCount <= maxUses, whatever the interleaving of evaluations and payment
\* confirmations; stated for the runs in which every payment is confirmed at
\* most once, so that two customers who both evaluated the code are the case.
C1_UsedCountWithinMaxUses ==
    NoRedelivery =>
        \A k \in DOMAIN discountCodes :
            discountCodes[k].maxUses # Null =>
                discountCodes[k].usedCount <= discountCodes[k].maxUses

\* C2: when a code with maxUses = N, N >= 1, has been redeemed N times, the
\* next payment confirmation naming it is refused: usedCount stays N.
C2_ExhaustedRedemptionRefused ==
    [][\A i \in 1..Len(intents) :
          (/\ Delivery(i)
           /\ intents[i].delivered = 0
           /\ Has(discountCodes, KeyOf(i))
           /\ discountCodes[KeyOf(i)].maxUses >= 1
           /\ discountCodes[KeyOf(i)].usedCount = discountCodes[KeyOf(i)].maxUses)
          => /\ Has(discountCodes', KeyOf(i))
             /\ discountCodes'[KeyOf(i)].usedCount =
                    discountCodes[KeyOf(i)].maxUses]_vars

\* C3: evaluation is read-only: /api/validate-discount and
\* /api/create-payment-intent leave the whole discount table unchanged, and an
\* evaluation of the same (code, amount) as the request served just before it,
\* at the same time, returns the same result.
C3_EvaluationReadOnly ==
    [][(Serves("validate-discount") \/ Serves("create-payment-intent")) =>
          /\ discountCodes' = discountCodes
          /\ generatedCodes' = generatedCodes
          /\ (/\ res.op = "validate-discount"
              /\ res'.op = "validate-discount"
              /\ "result" \in DOMAIN res
              /\ "result" \in DOMAIN res'
              /\ res.at = now
              /\ res'.code = res.code
              /\ res'.amount = res.amount)
             => res'.result = res.result]_vars

\* C3's case: a valid evaluation of the single-use code issued by email has
\* been served and the code is still unused
C3_Witness ==
    /\ res.op = "validate-discount"
    /\ res.status = 200
    /\ res.result.discountCode = "HELLO10"
    /\ res.result.finalPrice = 895
    /\ discountCodes["HELLO10"].usedCount = 0

\* C4: for every code of the table and every time t, calculateDiscountedPrice
\* returns valid: true if and only if the code is redeemable at t (active, not
\* past validUntil, usedCount below maxUses when maxUses is set, 0 included).
C4_ValidIffRedeemable ==
    \A k \in DOMAIN discountCodes, t \in 0..MaxTime :
        calculateDiscountedPrice(discountCodes, OriginalAmount, k, t).valid
            <=> Redeemable(discountCodes[k], t)

\* C5: a payment confirmation naming a code that is not redeemable at that
\* time leaves its usedCount unchanged; one naming a redeemable code adds
\* exactly one to its usedCount and changes no other code.
C5_RedemptionRevalidates ==
    [][\A i \in 1..Len(intents) :
          (/\ Delivery(i)
           /\ intents[i].delivered = 0
           /\ Has(discountCodes, KeyOf(i)))
          => IF Redeemable(discountCodes[KeyOf(i)], now)
             THEN discountCodes' =
                      [discountCodes EXCEPT ![KeyOf(i)].usedCount = @ + 1]
             ELSE discountCodes' = discountCodes]_vars

\* C6: a payment_intent.succeeded event delivered again for a payment intent
\* already confirmed does not count the code again.
C6_CountedOncePerPayment ==
    [][\A i \in 1..Len(intents) :
          (Delivery(i) /\ intents[i].delivered >= 1)
          => discountCodes' = discountCodes]_vars

\* C7: in every step, the usedCount stored under a key that stays in the table
\* does not become smaller.
C7_UsedCountMonotone ==
    [][\A k \in DOMAIN discountCodes \cap DOMAIN discountCodes' :
          discountCodes'[k].usedCount >= discountCodes[k].usedCount]_vars

\* C8: /api/create-payment-intent and the webhook events other than
\* payment_intent.succeeded leave the discount table unchanged, and a usedCount
\* changes only in a step that delivers payment_intent.succeeded for a payment
\* intent naming that code.
C8_RedemptionOnlyOnConfirmation ==
    [][/\ (\/ Serves("create-payment-intent")
           \/ Serves("stripe-webhook")
                /\ res'.event # "payment_intent.succeeded")
          => discountCodes' = discountCodes
       /\ \A k \in DOMAIN discountCodes \cap DOMAIN discountCodes' :
            discountCodes'[k].usedCount # discountCodes[k].usedCount
            => \E i \in 1..Len(intents) : Delivery(i) /\ KeyOf(i) = k]_vars

\* C8's case: payment_intent.payment_failed has been served for an intent that
\* carries the email code, and the code is still unused
C8_Witness ==
    /\ res.op = "stripe-webhook"
    /\ res.event = "payment_intent.payment_failed"
    /\ \E i \in 1..Len(intents) :
          intents[i].discountCode = "hello10" /\ intents[i].delivered = 0
    /\ discountCodes["HELLO10"].usedCount = 0

\* C9: a code with validUntil = T that is not exhausted evaluates as valid at
\* every time up to T and as expired ('Codice sconto scaduto') at every later
\* time, whether or not the sweep has run (no code is deactivated by hand in
\* the specification this is checked under).
C9_ExpiredReasonAfterValidUntil ==
    \A k \in DOMAIN discountCodes :
        (/\ discountCodes[k].validUntil # Null
         /\ discountCodes[k].maxUses = Null
                \/ discountCodes[k].usedCount < discountCodes[k].maxUses)
        => LET result == calculateDiscountedPrice(discountCodes,
                             OriginalAmount, k, now)
           IN IF now <= discountCodes[k].validUntil
              THEN result.valid
              ELSE ~result.valid /\ result.error = "Codice sconto scaduto"

\* C10: a sweep sets active = false for exactly the codes with validUntil set,
\* now > validUntil and active = true, changes nothing else and reports their
\* number; a sweep that follows a sweep at the same time flips nothing and
\* reports 0.
C10_SweepFlipsExpiredOnce ==
    [][(now' = now /\ res'.op \in SweepOps) =>
          LET due == {k \in DOMAIN discountCodes :
                          /\ discountCodes[k].validUntil # Null
                          /\ now > discountCodes[k].validUntil
                          /\ discountCodes[k].active}
          IN /\ discountCodes' =
                    [k \in DOMAIN discountCodes |->
                        IF k \in due
                        THEN [discountCodes[k] EXCEPT !.active = FALSE]
                        ELSE discountCodes[k]]
             /\ res'.deactivatedCount = Cardinality(due)
             /\ (res.op \in SweepOps /\ res.at = now)
                => /\ discountCodes' = discountCodes
                   /\ res'.deactivatedCount = 0]_vars

\* C10 as stated: a sweep that follows a sweep, at the same or any later time,
\* flips nothing and reports 0.
C10_LaterSweepFlipsNothing ==
    [][(now' = now /\ res'.op \in SweepOps /\ res.op \in SweepOps) =>
          /\ discountCodes' = discountCodes
          /\ res'.deactivatedCount = 0]_vars

\* C10's case: the sweep endpoint has flipped one expired code
C10_Witness ==
    /\ res.op = "cleanup-expired-codes"
    /\ res.deactivatedCount = 1
    /\ res.at = now
    /\ \E k \in DOMAIN discountCodes :
          /\ discountCodes[k].validUntil # Null
          /\ now > discountCodes[k].validUntil
          /\ ~discountCodes[k].active

\* C11: for every base price and every valid code, discountAmount is
\* basePrice * value / 100 rounded to the nearest integer (halves upwards) for
\* a percentage code and the smaller of value and basePrice for a fixed code.
C11_DiscountAmount ==
    (res.op = "evaluate" /\ res.result.valid) =>
        LET d == res.result.discountAmount
            x == res.originalPrice * res.result.discountValue
        IN IF res.result.discountType = "percentage"
           THEN 100 * d - 50 <= x /\ x < 100 * d + 50
           ELSE /\ d <= res.result.discountValue
                /\ d <= res.originalPrice
                /\ d = res.result.discountValue \/ d = res.originalPrice

\* C11's cases: 10 percent of 15000 is 1500, 10 percent of 995 rounds up to
\* 100, a fixed 5000 on 500 gives 500
C11_Witness ==
    /\ res.op = "evaluate"
    /\ res.result.valid
    /\ \/ /\ res.result.discountType = "fixed"
          /\ res.originalPrice = 500
          /\ res.result.discountValue = 5000
          /\ res.result.discountAmount = 500
       \/ /\ res.result.discountType = "percentage"
          /\ res.originalPrice = 995
          /\ res.result.discountValue = 10
          /\ res.result.discountAmount = 100

\* C12: for every base price >= 0 and every valid code, finalPrice is
\* basePrice - discountAmount, or 0 when that is negative; it is never negative
\* and never above basePrice; and the amount of every payment intent created
\* with a code is the finalPrice of that code on the price of 15000.
C12_FinalPrice ==
    /\ (res.op = "evaluate" /\ res.result.valid) =>
          LET f == res.result.finalPrice
              diff == res.originalPrice - res.result.discountAmount
          IN /\ f = IF diff < 0 THEN 0 ELSE diff
             /\ 0 <= f
             /\ f <= res.originalPrice
    /\ \A i \in 1..Len(intents) :
          intents[i].amount =
              IF intents[i].discountCode = "" THEN OriginalAmount
              ELSE calculateDiscountedPrice(discountCodes, OriginalAmount,
                       intents[i].discountCode, now).finalPrice

\* C12's case: a discount larger than the price has been evaluated to a final
\* price of 0, and a payment intent was created with the discounted amount
C12_Witness ==
    /\ res.op = "evaluate"
    /\ res.result.valid
    /\ res.result.discountAmount > res.originalPrice
    /\ res.result.finalPrice = 0
    /\ \E i \in 1..Len(intents) :
          intents[i].discountCode = "hello10" /\ intents[i].amount < OriginalAmount

\* the failure the specification names for a code at time t: the first of
\* absent, inactive, expired, exhausted that applies, "" when none does
FailureCase(table, code, t) ==
    LET key == ToUpperCase(code) IN
    IF ~Has(table, key) THEN "CodeNotFound"
    ELSE IF ~table[key].active THEN "CodeInactive"
    ELSE IF table[key].validUntil # Null /\ t > table[key].validUntil
    THEN "CodeExpired"
    ELSE IF table[key].maxUses # Null
            /\ table[key].usedCount >= table[key].maxUses
    THEN "CodeExhausted"
    ELSE ""

\* C13: evaluation reports a distinct reason for each of the four failures:
\* two codes that fail for different ones (absent, inactive, expired,
\* exhausted) are never given the same reason.
C13_DistinctReasons ==
    \A c1 \in CustomerCodes \ {""}, c2 \in CustomerCodes \ {""} :
        (/\ FailureCase(discountCodes, c1, now) # ""
         /\ FailureCase(discountCodes, c2, now) # ""
         /\ FailureCase(discountCodes, c1, now) #
                FailureCase(discountCodes, c2, now))
        => calculateDiscountedPrice(discountCodes, OriginalAmount, c1, now).error
             # calculateDiscountedPrice(discountCodes, OriginalAmount, c2, now).error

\* a step in which a route stored a code made by createDiscountCode
StoresCode ==
    /\ Serves("generate-discount-code") \/ Serves("send-discount-email")
    /\ "code" \in DOMAIN res'
    /\ discountCodes' # discountCodes

\* C14: every code createDiscountCode returns, generated or customCode, was
\* not in the discount table before under any letter-casing, so no existing
\* entry is overwritten.
C14_GeneratedCodeIsNew ==
    [][StoresCode =>
          \A k \in DOMAIN discountCodes :
              ToUpperCase(k) # ToUpperCase(res'.code)]_vars

\* C15: generation fails exactly when the request names a category that is
\* not a known one, whatever its other fields (customCode included), and a
\* failed generation adds no code to the generator's map or to the table.
C15_FailsExactlyOnUnknownCategory ==
    [][Serves("generate-discount-code") =>
          /\ (res'.status = 500)
             <=> (res'.category # "" /\ res'.category \notin Categories)
          /\ (res'.status = 500)
             => (discountCodes' = discountCodes
                    /\ generatedCodes' = generatedCodes)]_vars

\* C16: the fields of a code in the table change only by a redemption
\* (usedCount + 1) or by the sweep (active true -> false once validUntil has
\* passed), and an entry leaves the table only by the administrative delete.
C16_LifecycleFrame ==
    [][\A k \in DOMAIN discountCodes :
          IF k \notin DOMAIN discountCodes'
          THEN Serves("delete-discount-code")
          ELSE discountCodes'[k] # discountCodes[k] =>
                  \/ /\ \E i \in 1..Len(intents) : Delivery(i) /\ KeyOf(i) = k
                     /\ discountCodes'[k] =
                            [discountCodes[k] EXCEPT !.usedCount = @ + 1]
                  \/ /\ now' = now
                     /\ res'.op \in SweepOps
                     /\ discountCodes[k].validUntil # Null
                     /\ now > discountCodes[k].validUntil
                     /\ discountCodes'[k] =
                            [discountCodes[k] EXCEPT !.active = FALSE]]_vars

\* spellings of the names of codes, in either letter-casing
Spellings == {"first10", "FIRST10", "hello10", "HELLO10"}

\* C17: for every code in the table that is redeemable and every letter-casing
\* of its name, evaluation finds the code and returns its upper-case form;
\* codes stored under a caller-supplied customCode included.
C17_CaseInsensitiveLookup ==
    \A k \in DOMAIN discountCodes :
        \A c \in {s \in Spellings : ToUpperCase(s) = ToUpperCase(k)} :
            Redeemable(discountCodes[k], now) =>
                LET result == calculateDiscountedPrice(discountCodes,
                                  OriginalAmount, c, now)
                IN result.valid /\ result.discountCode = ToUpperCase(k)

\* the appointment has a row in the sheet
Taken(sheet, slot) ==
    \E r \in 1..Len(sheet) :
        sheet[r].slot = slot /\ sheet[r].status = "Confermata"

\* C18: in every reachable state of the sheet no two rows with status
\* 'Confermata' have the same date and time, whatever the interleaving of
\* create-payment-intent, webhook and booking-confirmation requests.
C18_NoDoubleBooking ==
    \A a, b \in 1..Len(rows) :
        (a # b /\ rows[a].status = "Confermata"
               /\ rows[b].status = "Confermata") =>
            rows[a].slot # rows[b].slot

\* C19: a create-payment-intent request for a date and time that already has
\* a 'Confermata' row is rejected, and no payment intent is created for it.
C19_SlotGuardBeforePayment ==
    [][(Serves("create-payment-intent") /\ Taken(rows, res'.slot)) =>
          (res'.status # 200 /\ intents' = intents)]_vars

\* C20: a delivery of payment_intent.succeeded is answered received: true
\* (200), counts a use of the code the intent names and takes no row from
\* the sheet (the row it appends is the intent's), whichever of the calendar
\* event, the customer's confirmation and the admin's notification fail.
C20_NoticesNeverRollBack ==
    [][\A i \in 1..Len(intents) :
          Delivery(i) =>
              /\ res'.op = "stripe-webhook" /\ res'.status = 200
              /\ Has(discountCodes, KeyOf(i)) /\ intents[i].discountCode # "" =>
                     discountCodes'[KeyOf(i)].usedCount
                         = discountCodes[KeyOf(i)].usedCount + 1
              /\ rows' \in {rows, Append(rows, Row(i))}]_vars

\* a delivery in which the event was not created and the customer's
\* confirmation was rejected (so nothing was sent) has appended the intent's
\* row and counted the use of HELLO10
C20_Witness ==
    /\ res.op = "stripe-webhook" /\ res.status = 200
    /\ res.event = "payment_intent.succeeded"
    /\ env.transporter /\ env.calendar /\ env.sheets
    /\ sent = {}
    /\ res.code = "hello10"
    /\ discountCodes["HELLO10"].usedCount = 1
    /\ rows = <<[slot |-> intents[res.paymentIntentId].slot,
                 paymentIntent |-> res.paymentIntentId,
                 status |-> "Confermata"]>>

\* the codes of the table issued by /api/send-discount-email (the route's
\* description marks them; only they carry an address in assignedTo)
EmailSignupCodes ==
    {k \in DOMAIN discountCodes :
        discountCodes[k].description = "Email Signup Discount - Sconto 10%"}

\* C21: at any time at most one code of the table has assignedTo = e, for
\* every address e: a send-discount-email request for an address that has been
\* issued a code creates no other code.
C21_OneCodePerRecipient ==
    \A k1, k2 \in EmailSignupCodes :
        discountCodes[k1].assignedTo = discountCodes[k2].assignedTo => k1 = k2

\* the times of a date that have a confirmed row in the sheet
ConfirmedTimes(sheet, date) ==
    {sheet[r].time : r \in {q \in 1..Len(sheet) :
                                /\ sheet[q].date = date
                                /\ sheet[q].status = "Confermata"}}

\* C22: availableSlots gives, for each date of the template, the template's
\* times minus the times of the confirmed bookings of that date, and a date
\* whose every time is booked is absent from the result.
C22_Reconciliation ==
    (res.op = "available-slots" /\ res.reachable) =>
        /\ DOMAIN res.result.slots =
               {d \in DOMAIN res.template :
                   res.template[d] \ ConfirmedTimes(rows, d) # {}}
        /\ \A d \in DOMAIN res.result.slots :
               res.result.slots[d] = res.template[d] \ ConfirmedTimes(rows, d)

\* the template of 2025-07-18 with 14:00 confirmed yields the other four
\* times, and the fully booked 2025-07-21 is absent
C22_Witness ==
    /\ res.op = "available-slots" /\ res.reachable
    /\ DOMAIN res.template = Dates
    /\ ConfirmedTimes(rows, "2025-07-18") = {"14:00"}
    /\ ConfirmedTimes(rows, "2025-07-21") = BusinessHours
    /\ res.result.slots =
           [d \in {"2025-07-18"} |-> {"09:00", "10:30", "15:30", "17:00"}]

\* C23: when the store cannot be reached, availableSlots returns the full
\* template with the warning flag, and isBooked returns the unknown signal,
\* never that the slot is free.
C23_FailOpenFailClosed ==
    /\ (res.op = "available-slots" /\ ~res.reachable) =>
           res.result = [slots |-> res.template, warning |-> TRUE]
    /\ (res.op = "is-booked" /\ ~res.reachable) => res.result = "unknown"

\* C24: in a create-payment-intent request that names a discount code, a
\* payment intent is created only when calculateDiscountedPrice returns valid
\* for the code in that request, and with the final price it returns; when it
\* returns invalid (unknown, inactive, expired, exhausted) the request ends
\* with an error and no payment intent is created.
C24_PricingBeforePayment ==
    [][(Serves("create-payment-intent") /\ res'.code # "") =>
          LET result == calculateDiscountedPrice(discountCodes, OriginalAmount,
                                                 res'.code, now)
          IN /\ intents' # intents =>
                    /\ result.valid
                    /\ intents' = Append(intents, intents'[Len(intents')])
                    /\ intents'[Len(intents')].amount = result.finalPrice
             /\ ~result.valid => (res'.status # 200 /\ intents' = intents)]_vars

\* a request naming HELLO10 after its validity has passed was answered 400
\* with the evaluation's error, no payment intent having been created
C24_Witness ==
    /\ res.op = "create-payment-intent"
    /\ res.code = "hello10"
    /\ res.status = 400
    /\ res.error = "Codice sconto scaduto"
    /\ Has(discountCodes, "HELLO10")
    /\ now > discountCodes["HELLO10"].validUntil
    /\ intents = <<>>

\* C25: a sweep changes nothing but the active flag of expired codes: the set
\* of codes, every other field of every code, every field of the codes that
\* are not expired or are already inactive, the generator's set, the payment
\* intents and the sheet are unchanged.
C25_SweepFrame ==
    [][(now' = now /\ res'.op \in SweepOps) =>
          /\ DOMAIN discountCodes' = DOMAIN discountCodes
          /\ \A k \in DOMAIN discountCodes :
                LET old == discountCodes[k]
                    new == discountCodes'[k]
                    expired == old.validUntil # Null /\ now > old.validUntil
                IN /\ [new EXCEPT !.active = old.active] = old
                   /\ new.active # old.active =>
                          (expired /\ old.active /\ ~new.active)
                   /\ (~expired \/ ~old.active) => new = old
          /\ UNCHANGED <<generatedCodes, intents, rows>>]_vars

\* a sweep has deactivated the expired HELLO10 and kept its count of one use,
\* its maxUses and its validUntil
C25_Witness ==
    /\ res.op \in SweepOps
    /\ res.deactivatedCount = 1
    /\ Has(discountCodes, "HELLO10")
    /\ ~discountCodes["HELLO10"].active
    /\ discountCodes["HELLO10"].usedCount = 1
    /\ discountCodes["HELLO10"].maxUses = 1
    /\ discountCodes["HELLO10"].validUntil = 1
    /\ discountCodes["SAVE10"].active

\* C26: a webhook request that arrives when no endpoint secret is configured,
\* or whose signature is rejected, or whose event is not
\* payment_intent.succeeded, changes no code of the table, appends no row and
\* sends nothing (no calendar event, no email).
C26_UnverifiedWebhooksChangeNothing ==
    [][(/\ Serves("stripe-webhook")
        /\ \/ ~env.webhookSecret
           \/ res'.status = 400
           \/ res'.event # "payment_intent.succeeded")
       => (/\ discountCodes' = discountCodes
           /\ rows' = rows
           /\ sent' = {}
           /\ UNCHANGED <<intents, generatedCodes>>)]_vars

\* with the sheet, the calendar and the mail configured and no endpoint
\* secret, a webhook request was answered while a payment intent naming
\* HELLO10 exists: the code is unused and the sheet is empty
C26_Witness ==
    /\ res.op = "stripe-webhook" /\ res.event = "none" /\ res.status = 200
    /\ ~env.webhookSecret
    /\ env.sheets /\ env.calendar /\ env.transporter
    /\ \E i \in 1..Len(intents) : intents[i].discountCode = "hello10"
    /\ discountCodes["HELLO10"].usedCount = 0
    /\ rows = <<>>
    /\ sent = {}

\* C27: a send-discount-email request that ends with an error response
\* (missing or malformed email, mail service not configured, sendMail
\* rejecting) leaves the discount table and the generator's set holding
\* exactly the codes they held before.
C27_ErrorLeavesCodesUnchanged ==
    [][(Serves("send-discount-email") /\ res'.status # 200) =>
          /\ DOMAIN discountCodes' = DOMAIN discountCodes
          /\ generatedCodes' = generatedCodes]_vars

\* C28: for every payment intent that has succeeded, at most one 'Confermata'
\* row of the sheet carries its id, whatever the webhook deliveries
\* (redeliveries included) and the booking-confirmation calls for it.  (The
\* customer's confirmation is sent by the same calls that append the row.)
C28_OneRowPerPayment ==
    \A a, b \in 1..Len(rows) :
        (/\ a # b
         /\ rows[a].status = "Confermata" /\ rows[b].status = "Confermata"
         /\ intents[rows[a].paymentIntent].delivered >= 1)
        => rows[a].paymentIntent # rows[b].paymentIntent

\* C29: every customer who is sent the booking confirmation is sent the Meet
\* link email too, also when createGoogleMeetEvent returns no meeting info.
\* (The link is sent by the request that sends the confirmation or not at
\* all: scheduleReminderEmail sends at once and nothing sends it later.)
C29_MeetLinkFollowsConfirmation ==
    [][(Serves("stripe-webhook") /\ "confirmation-email" \in sent') =>
          "meet-link-email" \in sent']_vars

\* the retry timers of keepServerAlive that are pending
PendingRetries == SelectSeq(timers, LAMBDA t : t.kind = "retry")

\* C30: at most one retry timer started by keepServerAlive is pending at any
\* time, however many cron ticks and failed pings have occurred, and outside
\* production keepServerAlive makes no ping and no callback is scheduled.
C30_AtMostOneRetryPending ==
    /\ Len(PendingRetries) <= 1
    /\ ~env.production =>
           /\ timers = <<>>
           /\ res.op = "keep-alive" => ~res.pinged

====
